---------------------------- MODULE Spec2Model ----------------------------
(***************************************************************************)
(* Shape, channel-plan, construction and bundle model of                   *)
(* src/models/unet.py (UNetBase, UNet2d, Encoder2d, Decoder2d,             *)
(* EncoderBlock2d, DecoderBlock2d and the __main__ driver).                *)
(*                                                                         *)
(* Tensors are represented by their shape (B, C, H, W); learnable          *)
(* parameters by one abstract value per layer.  Python values whose type   *)
(* decides the control flow (an int against a pair, a scalar against a     *)
(* list, None against a value) carry their type as a tag.                  *)
(***************************************************************************)
EXTENDS Integers, Sequences, FiniteSets, TLC

(***************************************************************************)
(* Bounds of the exploration.                                              *)
(***************************************************************************)
MaxBlocks == 2      \* n_blocks ranges over 1..MaxBlocks
MaxK == 2           \* kernel sizes and strides range over 1..MaxK
MaxH == 6           \* input heights range over 1..MaxH
MaxW == 3           \* input widths range over 1..MaxW
MaxC == 2           \* channel counts range over 1..MaxC
MaxParam == 1       \* abstract parameter values range over 0..MaxParam

(***************************************************************************)
(* The constants of the __main__ driver.                                   *)
(***************************************************************************)
batch_size == 4
MainC == 3
MainC1 == 8
MainC2 == 16
MainOut == 32
MainH == 256
MainK == 3
MainS == 1

(***************************************************************************)
(* Python values.                                                          *)
(***************************************************************************)
\* an int given where <tuple<int,int>> is documented
PyInt(k) == [t |-> "int", h |-> k, w |-> k]
\* a tuple (h, w)
PyPair(a, b) == [t |-> "pair", h |-> a, w |-> b]
\* None
PyNone == [t |-> "none", h |-> 0, w |-> 0]
\* a scalar argument (anything whose type is not list)
Scalar(v) == [isList |-> FALSE, v |-> <<v>>]
\* a per-stage list argument
List(s) == [isList |-> TRUE, v |-> s]
\* out_channels=None and out_channels=c
NoChannels == [some |-> FALSE, c |-> 0]
SomeChannels(c) == [some |-> TRUE, c |-> c]

\* torch.nn.modules.utils._pair: an int is repeated, a tuple is kept
_pair(v) == <<v.h, v.w>>

\* Python's  v == 1 : true of the int 1, false of every tuple
PyEqOne(v) == v.t = "int" /\ v.h = 1

\* Python's  [x] * n_blocks  when the argument is not a list
Broadcast(arg, n_blocks) ==
    IF arg.isList THEN arg.v ELSE [i \in 1..n_blocks |-> arg.v[1]]

RECURSIVE Pow2(_)
Pow2(n) == IF n = 0 THEN 1 ELSE 2 * Pow2(n - 1)

\* Python's seq[::-1]
Reverse(s) == [i \in 1..Len(s) |-> s[Len(s) + 1 - i]]


(***************************************************************************)
(* Construction.  Every constructor returns a record whose err field is    *)
(* "none" or the name of the exception it raised.                          *)
(***************************************************************************)
ActivationsEnc == {"relu"}
ActivationsDec == {"relu", "sigmoid"}

\* EncoderBlock2d.__init__ without the unsupported-kind branch
EncoderBlock2d_init_AnyKind(in_channels, out_channels, kernel_size, stride, dilation, separable, nonlinear) ==
    [err |-> "none",
     blk |-> [in_channels |-> in_channels, out_channels |-> out_channels,
              kernel_size |-> _pair(kernel_size),
              stride |-> IF stride.t = "none" THEN _pair(kernel_size) ELSE _pair(stride),
              dilation |-> _pair(PyInt(dilation)),
              separable |-> separable, nonlinear |-> nonlinear]]

\* EncoderBlock2d.__init__
EncoderBlock2d_init(in_channels, out_channels, kernel_size, stride, dilation, separable, nonlinear) ==
    LET ks == _pair(kernel_size)
        st == IF stride.t = "none" THEN ks ELSE _pair(stride)
        dl == _pair(PyInt(dilation))
    IN  [err |-> IF nonlinear \in ActivationsEnc THEN "none" ELSE "NotImplementedError",
         blk |-> [in_channels |-> in_channels, out_channels |-> out_channels,
                  kernel_size |-> ks, stride |-> st, dilation |-> dl,
                  separable |-> separable, nonlinear |-> nonlinear]]

\* DecoderBlock2d.__init__
DecoderBlock2d_init(in_channels, out_channels, kernel_size, stride, dilation, separable, nonlinear) ==
    LET ks == _pair(kernel_size)
        st == IF stride.t = "none" THEN ks ELSE _pair(stride)
        dl == _pair(PyInt(dilation))
    IN  [err |-> IF nonlinear \in ActivationsDec THEN "none" ELSE "NotImplementedError",
         blk |-> [in_channels |-> in_channels, out_channels |-> out_channels,
                  kernel_size |-> ks, stride |-> st, dilation |-> dl,
                  separable |-> separable, nonlinear |-> nonlinear]]

\* the dilated branch without its stride check
StrideAssert_Skipped(stride_n) == TRUE

\* the stride check of the dilated branch:  assert stride[n] == 1
StrideAssert(stride_n) == PyEqOne(stride_n)

\* dilation of encoder stage n (0-indexed)
EncoderDilation(dilated, n) == IF dilated THEN Pow2(n) ELSE 1

\* dilation of decoder stage n (0-indexed)
DecoderDilation(dilated, n_blocks, n) == IF dilated THEN Pow2(n_blocks - n - 1) ELSE 1

\* the normalisation of kernel_size, stride and nonlinear to per-stage lists
Resolve(kernel_size, stride, nonlinear, n_blocks) ==
    LET ks == Broadcast(kernel_size, n_blocks)
    IN  [kernel_size |-> ks,
         stride |-> IF (~stride.isList) /\ stride.v[1].t = "none" THEN ks
                    ELSE Broadcast(stride, n_blocks),
         nonlinear |-> Broadcast(nonlinear, n_blocks)]

\* the loop of Encoder2d.__init__ from stage n on (n is 0-indexed as in the code)
RECURSIVE EncoderLoop(_, _, _, _, _, _, _)
EncoderLoop(n, net, channels, r, dilated, separable, n_blocks) ==
    IF n >= n_blocks THEN [err |-> "none", net |-> net]
    ELSE IF dilated /\ ~StrideAssert(r.stride[n + 1])
         THEN [err |-> "AssertionError", net |-> net]
    ELSE LET b == EncoderBlock2d_init(channels[n + 1], channels[n + 2], r.kernel_size[n + 1],
                                      r.stride[n + 1], EncoderDilation(dilated, n),
                                      separable, r.nonlinear[n + 1])
         IN  IF b.err # "none" THEN [err |-> b.err, net |-> net]
             ELSE EncoderLoop(n + 1, Append(net, b.blk), channels, r, dilated, separable, n_blocks)

\* Encoder2d.__init__
Encoder2d_init(channels, kernel_size, stride, dilated, separable, nonlinear) ==
    LET n_blocks == Len(channels) - 1
        r == Resolve(kernel_size, stride, nonlinear, n_blocks)
    IN  EncoderLoop(0, <<>>, channels, r, dilated, separable, n_blocks)

\* the loop of Decoder2d.__init__ from stage n on
RECURSIVE DecoderLoop(_, _, _, _, _, _, _)
DecoderLoop(n, net, channels, r, dilated, separable, n_blocks) ==
    IF n >= n_blocks THEN [err |-> "none", net |-> net]
    ELSE IF dilated /\ ~StrideAssert(r.stride[n + 1])
         THEN [err |-> "AssertionError", net |-> net]
    ELSE LET b == DecoderBlock2d_init(channels[n + 1], channels[n + 2] \div 2, r.kernel_size[n + 1],
                                      r.stride[n + 1], DecoderDilation(dilated, n_blocks, n),
                                      separable, r.nonlinear[n + 1])
         IN  IF b.err # "none" THEN [err |-> b.err, net |-> net]
             ELSE DecoderLoop(n + 1, Append(net, b.blk), channels, r, dilated, separable, n_blocks)

\* Decoder2d.__init__
Decoder2d_init(channels, kernel_size, stride, dilated, separable, nonlinear) ==
    LET n_blocks == Len(channels) - 1
        r == Resolve(kernel_size, stride, nonlinear, n_blocks)
    IN  DecoderLoop(0, <<>>, channels, r, dilated, separable, n_blocks)

\* channels_dec that ignores out_channels
ReversedChannels_IgnoreOut(channels, out_channels) == Reverse(channels)

\* channels_dec of UNet2d.__init__ before the doubling
ReversedChannels(channels, out_channels) ==
    IF ~out_channels.some THEN Reverse(channels)
    ELSE Append(Reverse(SubSeq(channels, 2, Len(channels))), out_channels.c)

\* _channels_dec without the doubling
DoubledChannels_NoDoubling(channels_dec) == channels_dec

\* _channels_dec: every entry but the first is doubled
DoubledChannels(channels_dec) ==
    [i \in 1..Len(channels_dec) |-> IF i = 1 THEN channels_dec[i] ELSE 2 * channels_dec[i]]

\* the channel plan handed to Decoder2d
ChannelsDec(channels, out_channels) ==
    DoubledChannels(ReversedChannels(channels, out_channels))

\* the parameters a layer holds: their shape and one abstract value
LayerParams(in_channels, out_channels, kernel_size, separable, val) ==
    [shape |-> <<in_channels, out_channels, kernel_size[1], kernel_size[2]>>,
     separable |-> separable, val |-> val]

\* nn.Module.state_dict of a constructed UNet2d: one entry per layer, keyed by
\* its structural path
StateDictOf(encoder, bottleneck, decoder, val) ==
    [k \in ({"encoder"} \X (1..Len(encoder))) \cup {<<"bottleneck", 0>>}
           \cup ({"decoder"} \X (1..Len(decoder))) |->
        IF k[1] = "encoder"
        THEN LayerParams(encoder[k[2]].in_channels, encoder[k[2]].out_channels,
                         encoder[k[2]].kernel_size, encoder[k[2]].separable, val)
        ELSE IF k[1] = "decoder"
        THEN LayerParams(decoder[k[2]].in_channels, decoder[k[2]].out_channels,
                         decoder[k[2]].kernel_size, decoder[k[2]].separable, val)
        ELSE LayerParams(bottleneck.in_channels, bottleneck.out_channels, <<1, 1>>, FALSE, val)]

\* UNet2d.__init__ on the argument record a; val is the value the parameters
\* are initialised with
UNet2d_init(a, val) ==
    LET channels_dec == ChannelsDec(a.channels, a.out_channels)
        enc == Encoder2d_init(a.channels, a.kernel_size, a.stride, a.dilated, a.separable, a.nonlinear_enc)
        bott == [in_channels |-> a.channels[Len(a.channels)],
                 out_channels |-> a.channels[Len(a.channels)]]
        dec == IF enc.err = "none"
               THEN Decoder2d_init(channels_dec, a.kernel_size, a.stride, a.dilated, a.separable, a.nonlinear_dec)
               ELSE [err |-> enc.err, net |-> <<>>]
    IN  [err |-> dec.err,
         channels |-> a.channels, kernel_size |-> a.kernel_size, stride |-> a.stride,
         dilated |-> a.dilated, separable |-> a.separable,
         nonlinear_enc |-> a.nonlinear_enc, nonlinear_dec |-> a.nonlinear_dec,
         out_channels |-> a.out_channels,
         encoder |-> enc.net, bottleneck |-> bott, decoder |-> dec.net,
         params |-> IF dec.err = "none" THEN StateDictOf(enc.net, bott, dec.net, val)
                    ELSE << >>]

(***************************************************************************)
(* Forward passes on tensor shapes [B, C, H, W].                           *)
(***************************************************************************)
Shape(b, c, h, w) == [B |-> b, C |-> c, H |-> h, W |-> w]

\* effective kernel extent  (K - 1) * D + 1
EffectiveKernel(K, D) == (K - 1) * D + 1

\* the encoder padding one larger
EncoderPadding_OffByOne(H, Kh, Sh) == Kh - ((Sh - ((H - Kh) % Sh)) % Sh)

\* padding_height / padding_width of EncoderBlock2d.forward (% is floor-mod)
EncoderPadding(H, Kh, Sh) == Kh - 1 - ((Sh - ((H - Kh) % Sh)) % Sh)

\* padding_height / padding_width of DecoderBlock2d.forward
DecoderPadding(Kh, Sh) == Kh - Sh

\* padding_top / padding_left
PadBefore(p) == p \div 2

\* padding_bottom / padding_right
PadAfter(p) == p - PadBefore(p)

\* F.pad along one dimension (negative amounts crop)
PadExtent(H, before, after) == H + before + after

\* output extent of nn.Conv2d along one dimension, no padding of its own
ConvExtent(H, Keff, S) == (H - Keff) \div S + 1

\* output extent of nn.ConvTranspose2d along one dimension
ConvTransposeExtent(H, Keff, S) == (H - 1) * S + Keff

NoLocals == [side |-> "none", Kh |-> 0, Kw |-> 0, Sh |-> 0, Sw |-> 0, H |-> 0, W |-> 0,
             padding_height |-> 0, padding_width |-> 0,
             padding_top |-> 0, padding_bottom |-> 0,
             padding_left |-> 0, padding_right |-> 0]

\* EncoderBlock2d.forward: the locals, the raised error and the output shape.
\* The depthwise-separable convolution is given the same kernel_size, stride and
\* dilation as nn.Conv2d and is taken to have its output extent.  The
\* convolution raises when the padded input is smaller than the kernel or the
\* channel count is not in_channels.
EncoderBlock2d_forward(blk, input) ==
    LET Kh == EffectiveKernel(blk.kernel_size[1], blk.dilation[1])
        Kw == EffectiveKernel(blk.kernel_size[2], blk.dilation[2])
        Sh == blk.stride[1]
        Sw == blk.stride[2]
        padding_height == EncoderPadding(input.H, Kh, Sh)
        padding_width == EncoderPadding(input.W, Kw, Sw)
        padding_top == PadBefore(padding_height)
        padding_bottom == PadAfter(padding_height)
        padding_left == PadBefore(padding_width)
        padding_right == PadAfter(padding_width)
        Hp == PadExtent(input.H, padding_top, padding_bottom)
        Wp == PadExtent(input.W, padding_left, padding_right)
        bad == \/ Hp < Kh
               \/ Wp < Kw
               \/ input.C # blk.in_channels
    IN  [err |-> IF bad THEN "RuntimeError" ELSE "none",
         out |-> IF bad THEN input
                 ELSE Shape(input.B, blk.out_channels, ConvExtent(Hp, Kh, Sh), ConvExtent(Wp, Kw, Sw)),
         locals |-> [side |-> "enc", Kh |-> Kh, Kw |-> Kw, Sh |-> Sh, Sw |-> Sw,
                     H |-> input.H, W |-> input.W,
                     padding_height |-> padding_height, padding_width |-> padding_width,
                     padding_top |-> padding_top, padding_bottom |-> padding_bottom,
                     padding_left |-> padding_left, padding_right |-> padding_right]]

\* torch.cat([input, skip], dim=1): every extent but the channels must agree
CatOk(input, skip) == input.B = skip.B /\ input.H = skip.H /\ input.W = skip.W

\* DecoderBlock2d.forward; skip is << >> (None) or a one-element sequence.
\* torch.cat raises on tensors of different height or width, the transposed
\* convolution on a channel count that is not in_channels.
DecoderBlock2d_forward(blk, input, skip) ==
    LET Kh == EffectiveKernel(blk.kernel_size[1], blk.dilation[1])
        Kw == EffectiveKernel(blk.kernel_size[2], blk.dilation[2])
        Sh == blk.stride[1]
        Sw == blk.stride[2]
        padding_height == DecoderPadding(Kh, Sh)
        padding_width == DecoderPadding(Kw, Sw)
        padding_top == PadBefore(padding_height)
        padding_bottom == PadAfter(padding_height)
        padding_left == PadBefore(padding_width)
        padding_right == PadAfter(padding_width)
        catBad == skip # << >> /\ ~CatOk(input, skip[1])
        C == IF skip # << >> THEN input.C + skip[1].C ELSE input.C
        Hd == ConvTransposeExtent(input.H, Kh, Sh)
        Wd == ConvTransposeExtent(input.W, Kw, Sw)
        Ho == PadExtent(Hd, -padding_top, -padding_bottom)
        Wo == PadExtent(Wd, -padding_left, -padding_right)
        bad == catBad \/ C # blk.in_channels \/ Ho < 0 \/ Wo < 0
    IN  [err |-> IF bad THEN "RuntimeError" ELSE "none",
         out |-> IF bad THEN input ELSE Shape(input.B, blk.out_channels, Ho, Wo),
         locals |-> [side |-> "dec", Kh |-> Kh, Kw |-> Kw, Sh |-> Sh, Sw |-> Sw,
                     H |-> input.H, W |-> input.W,
                     padding_height |-> padding_height, padding_width |-> padding_width,
                     padding_top |-> padding_top, padding_bottom |-> padding_bottom,
                     padding_left |-> padding_left, padding_right |-> padding_right]]

\* the 1x1, stride-1 bottleneck convolution
Bottleneck_forward(b, input) ==
    [err |-> IF input.C # b.in_channels THEN "RuntimeError" ELSE "none",
     out |-> IF input.C # b.in_channels THEN input
             ELSE Shape(input.B, b.out_channels, ConvExtent(input.H, 1, 1), ConvExtent(input.W, 1, 1))]

(***************************************************************************)
(* Bundles.                                                                *)
(***************************************************************************)
\* get_package that stores kernel_size under 'stride'
get_package_StrideFromKernel(m) ==
    [channels |-> m.channels, kernel_size |-> m.kernel_size, stride |-> m.kernel_size,
     dilated |-> m.dilated, separable |-> m.separable,
     nonlinear_enc |-> m.nonlinear_enc, nonlinear_dec |-> m.nonlinear_dec,
     out_channels |-> m.out_channels]

\* UNetBase.get_package
get_package(m) ==
    [channels |-> m.channels, kernel_size |-> m.kernel_size, stride |-> m.stride,
     dilated |-> m.dilated, separable |-> m.separable,
     nonlinear_enc |-> m.nonlinear_enc, nonlinear_dec |-> m.nonlinear_dec,
     out_channels |-> m.out_channels]

\* package['state_dict'] = unet2d.state_dict()
WithStateDict(package, m) == package @@ [state_dict |-> m.params]

\* model.load_state_dict(state_dict), strict: the keys and the shapes must be the model's
load_state_dict(m, state_dict) ==
    IF /\ DOMAIN state_dict = DOMAIN m.params
       /\ \A k \in DOMAIN state_dict :
              /\ state_dict[k].shape = m.params[k].shape
              /\ state_dict[k].separable = m.params[k].separable
    THEN [m EXCEPT !.params = state_dict]
    ELSE [m EXCEPT !.err = "RuntimeError"]

\* no model object: construction has not happened, or it raised e before any
\* field was read
NoModel(e) ==
    [err |-> e, channels |-> << >>, kernel_size |-> Scalar(PyNone), stride |-> Scalar(PyNone),
     dilated |-> FALSE, separable |-> FALSE,
     nonlinear_enc |-> Scalar("none"), nonlinear_dec |-> Scalar("none"),
     out_channels |-> NoChannels, encoder |-> << >>,
     bottleneck |-> [in_channels |-> 0, out_channels |-> 0], decoder |-> << >>,
     params |-> << >>]

ConfigKeys == {"channels", "kernel_size", "stride", "dilated", "separable",
               "nonlinear_enc", "nonlinear_dec", "out_channels"}

\* UNetBase.load_model on the mapping read back from model_path; val is the
\* value the new model's parameters are initialised with
load_model(package, val) ==
    IF ~(ConfigKeys \subseteq DOMAIN package) THEN NoModel("KeyError")
    ELSE LET m == UNet2d_init([k \in ConfigKeys |-> package[k]], val)
         IN  IF m.err # "none" THEN m
             ELSE IF "state_dict" \notin DOMAIN package THEN [m EXCEPT !.err = "KeyError"]
             ELSE load_state_dict(m, package.state_dict)

(***************************************************************************)
(* The state: one driver run in the manner of __main__.                    *)
(***************************************************************************)
VARIABLES
    pc,        \* where the driver stands
    args,      \* the arguments UNet2d is constructed with
    inputs,    \* the input tensor shapes the driver may feed to forward
    rng,       \* the value the next parameter initialisation draws
    model,     \* unet2d: the constructed model, or NoModel
    input,     \* the tensor forward was called with
    n,         \* the loop index of Encoder2d.forward / Decoder2d.forward
    x,         \* the tensor flowing through forward
    skip,      \* the skip list
    locals,    \* the locals of the block forward that ran last
    err,       \* the exception the last operation raised, or "none"
    package,   \* the mapping built by get_package, << >> before
    file,      \* the content of model_path, << >> before torch.save
    loaded     \* the model returned by load_model, or NoModel

vars == <<pc, args, inputs, rng, model, input, n, x, skip, locals, err, package, file, loaded>>

NoTensor == Shape(0, 0, 0, 0)

n_blocks == Len(model.encoder)

(***************************************************************************)
(* The argument values explored.                                           *)
(***************************************************************************)
BlockCounts == 1..MaxBlocks
Ones(N) == [i \in 1..(N + 1) |-> 1]

IntSizes == {PyInt(k) : k \in 1..MaxK}
PairSizes == {PyPair(a, b) : a \in 1..MaxK, b \in 1..MaxK}

KernelOptions(N) ==
    {Scalar(k) : k \in IntSizes \cup PairSizes} \cup {List(l) : l \in [1..N -> IntSizes]}

StrideOptions(N) ==
    {Scalar(PyNone)} \cup {Scalar(k) : k \in IntSizes \cup PairSizes}
    \cup {List(l) : l \in [1..N -> IntSizes]}
    \cup {List(l) : l \in [1..N -> {PyInt(1), PyPair(1, 1)}]}

ActivationNames == {"relu", "sigmoid", "tanh"}
ActivationOptions(N) ==
    {Scalar(a) : a \in ActivationNames} \cup {List(l) : l \in [1..N -> ActivationNames]}

ChannelOptions(N) == [1..(N + 1) -> 1..MaxC]
OutChannelOptions == {NoChannels} \cup {SomeChannels(c) : c \in 1..MaxC}

Args(channels, kernel_size, stride, dilated, separable, nonlinear_enc, nonlinear_dec, out_channels) ==
    [channels |-> channels, kernel_size |-> kernel_size, stride |-> stride,
     dilated |-> dilated, separable |-> separable,
     nonlinear_enc |-> nonlinear_enc, nonlinear_dec |-> nonlinear_dec,
     out_channels |-> out_channels]

\* kernels, strides and dilation vary; channels and activations are plain
ShapeInit ==
    /\ \E N \in BlockCounts :
         \E k \in KernelOptions(N), s \in StrideOptions(N), d \in BOOLEAN :
            args = Args(Ones(N), k, s, d, FALSE, Scalar("relu"), Scalar("relu"), NoChannels)
    /\ inputs = {Shape(batch_size, 1, h, w) : h \in 1..MaxH, w \in 1..MaxW}
    /\ rng = 0

\* the channel plan, out_channels and separable vary
PlanInit ==
    /\ \E N \in BlockCounts :
         \E c \in ChannelOptions(N), k \in 1..MaxK,
            s \in {Scalar(PyNone), Scalar(PyInt(1))}, sep \in BOOLEAN,
            o \in OutChannelOptions :
            args = Args(c, Scalar(PyInt(k)), s, FALSE, sep, Scalar("relu"), Scalar("relu"), o)
    /\ inputs = {Shape(batch_size, args.channels[1], MaxH, MaxW)}
    /\ rng \in 0..MaxParam

\* the activation kinds vary, against strides and dilation
ActivationInit ==
    /\ \E N \in BlockCounts :
         \E s \in {Scalar(PyNone), Scalar(PyInt(1))}
                  \cup {List(l) : l \in [1..N -> {PyInt(1), PyInt(MaxK)}]},
            d \in BOOLEAN, ne \in ActivationOptions(N), nd \in ActivationOptions(N) :
            args = Args(Ones(N), Scalar(PyInt(MaxK)), s, d, FALSE, ne, nd, NoChannels)
    /\ inputs = {Shape(batch_size, 1, MaxH, MaxW)}
    /\ rng = 0

\* the configuration of __main__, with out_channels and nonlinear_dec as
\* given there or left at the constructor's defaults
MainChannels == <<MainC, MainC1, MainC2, MainC2, MainOut>>
MainArgs ==
    {Args(MainChannels, Scalar(PyInt(MainK)), Scalar(PyInt(MainS)), TRUE, FALSE,
          Scalar("relu"), nd, o) :
        nd \in {Scalar("relu"), List(<<"relu", "relu", "relu", "sigmoid">>)},
        o \in {NoChannels, SomeChannels(MainOut)}}

MainInit ==
    /\ args \in MainArgs
    /\ inputs = {Shape(batch_size, MainC, MainH, MainH)}
    /\ rng \in 0..MaxParam

(***************************************************************************)
(* Initial states and actions.                                             *)
(***************************************************************************)
Init ==
    /\ \/ ShapeInit
       \/ PlanInit
       \/ ActivationInit
       \/ MainInit
    /\ pc = "start"
    /\ model = NoModel("unbuilt")
    /\ input = NoTensor
    /\ n = 0
    /\ x = NoTensor
    /\ skip = << >>
    /\ locals = NoLocals
    /\ err = "none"
    /\ package = << >>
    /\ file = << >>
    /\ loaded = NoModel("unbuilt")

\* the next value of the parameter initialiser
NextRng(r) == (r + 1) % (MaxParam + 1)

\* unet2d = UNet2d(channels, kernel_size=..., ...)
Construct ==
    /\ pc = "start"
    /\ model' = UNet2d_init(args, rng)
    /\ rng' = NextRng(rng)
    /\ err' = model'.err
    /\ pc' = IF model'.err = "none" THEN "ready" ELSE "ctor_failed"
    /\ UNCHANGED <<args, inputs, input, n, x, skip, locals, package, file, loaded>>

\* output = unet2d(input): UNet2d.forward enters Encoder2d.forward
ForwardCall ==
    /\ pc = "ready"
    /\ \E i \in inputs : input' = i /\ x' = i
    /\ skip' = << >>
    /\ n' = 0
    /\ pc' = "encoder"
    /\ UNCHANGED <<args, inputs, rng, model, locals, err, package, file, loaded>>

\* one iteration of the loop of Encoder2d.forward
EncoderStep ==
    /\ pc = "encoder"
    /\ n < n_blocks
    /\ LET r == EncoderBlock2d_forward(model.encoder[n + 1], x)
       IN  /\ locals' = r.locals
           /\ err' = r.err
           /\ IF r.err = "none"
              THEN /\ x' = r.out
                   /\ skip' = Append(skip, r.out)
                   /\ n' = n + 1
                   /\ pc' = pc
              ELSE /\ pc' = "forward_failed"
                   /\ UNCHANGED <<x, skip, n>>
    /\ UNCHANGED <<args, inputs, rng, model, input, package, file, loaded>>

\* Encoder2d.forward returns; the bottleneck runs; Decoder2d.forward is entered
\* with skip[::-1]
BottleneckStep ==
    /\ pc = "encoder"
    /\ n = n_blocks
    /\ LET r == Bottleneck_forward(model.bottleneck, x)
       IN  /\ err' = r.err
           /\ IF r.err = "none"
              THEN /\ x' = r.out
                   /\ skip' = Reverse(skip)
                   /\ n' = 0
                   /\ pc' = "decoder"
              ELSE /\ pc' = "forward_failed"
                   /\ UNCHANGED <<x, skip, n>>
    /\ UNCHANGED <<args, inputs, rng, model, input, locals, package, file, loaded>>

\* one iteration of the loop of Decoder2d.forward; the last one returns output
DecoderStep ==
    /\ pc = "decoder"
    /\ n < n_blocks
    /\ LET r == DecoderBlock2d_forward(model.decoder[n + 1], x,
                                       IF n = 0 THEN << >> ELSE <<skip[n + 1]>>)
       IN  /\ locals' = r.locals
           /\ err' = r.err
           /\ IF r.err = "none"
              THEN /\ x' = r.out
                   /\ n' = n + 1
                   /\ pc' = IF n + 1 = n_blocks THEN "done" ELSE pc
              ELSE /\ pc' = "forward_failed"
                   /\ UNCHANGED <<x, n>>
    /\ UNCHANGED <<args, inputs, rng, model, input, skip, package, file, loaded>>

\* package = unet2d.get_package()
GetPackage ==
    /\ pc \in {"ready", "done"}
    /\ package' = <<get_package(model)>>
    /\ pc' = "packaged"
    /\ UNCHANGED <<args, inputs, rng, model, input, n, x, skip, locals, err, file, loaded>>

\* package['state_dict'] = unet2d.state_dict()
AddStateDict ==
    /\ pc = "packaged"
    /\ "state_dict" \notin DOMAIN package[1]
    /\ package' = <<WithStateDict(package[1], model)>>
    /\ UNCHANGED <<pc, args, inputs, rng, model, input, n, x, skip, locals, err, file, loaded>>

\* torch.save(package, model_path)
Save ==
    /\ pc = "packaged"
    /\ file' = package
    /\ pc' = "saved"
    /\ UNCHANGED <<args, inputs, rng, model, input, n, x, skip, locals, err, package, loaded>>

\* model = UNet2d.load_model(model_path)
LoadModel ==
    /\ pc = "saved"
    /\ loaded' = load_model(file[1], rng)
    /\ rng' = NextRng(rng)
    /\ err' = loaded'.err
    /\ pc' = IF loaded'.err = "none" THEN "loaded" ELSE "load_failed"
    /\ UNCHANGED <<args, inputs, model, input, n, x, skip, locals, package, file>>

Next ==
    \/ Construct
    \/ ForwardCall
    \/ EncoderStep
    \/ BottleneckStep
    \/ DecoderStep
    \/ GetPackage
    \/ AddStateDict
    \/ Save
    \/ LoadModel

Spec == Init /\ [][Next]_vars

(***************************************************************************)
(* Vocabulary of the properties.                                           *)
(***************************************************************************)
Ceil(a, b) == (a + b - 1) \div b

Built == pc \notin {"start", "ctor_failed"}
InForward == pc \in {"encoder", "decoder", "done", "forward_failed"}
IsMain == args \in MainArgs

\* every stage of the constructed model has stride <= effective kernel, in
\* both dimensions
BlockStrideWithinKernel(b) ==
    \A d \in 1..2 : b.stride[d] <= EffectiveKernel(b.kernel_size[d], b.dilation[d])
StrideWithinKernel ==
    /\ \A i \in 1..Len(model.encoder) : BlockStrideWithinKernel(model.encoder[i])
    /\ \A i \in 1..Len(model.decoder) : BlockStrideWithinKernel(model.decoder[i])

\* the entry of a scalar-or-list argument that stage i (1-indexed) is given
EntryAt(arg, i) == IF arg.isList THEN arg.v[i] ELSE arg.v[1]
ArgBlocks == Len(args.channels) - 1
\* the stride stage i is given: stride defaults to kernel_size
StrideAt(i) ==
    IF (~args.stride.isList) /\ args.stride.v[1].t = "none"
    THEN EntryAt(args.kernel_size, i) ELSE EntryAt(args.stride, i)
\* the stride of stage i is 1 in both spatial dimensions
UnitStride(i) == StrideAt(i).h = 1 /\ StrideAt(i).w = 1
EncoderKindsSupported == \A i \in 1..ArgBlocks : EntryAt(args.nonlinear_enc, i) = "relu"
DecoderKindsSupported ==
    \A i \in 1..ArgBlocks : EntryAt(args.nonlinear_dec, i) \in {"relu", "sigmoid"}

(***************************************************************************)
(* C1: for every configuration with stride <= effective kernel at every    *)
(* stage and every input H, W >= 1, forward returns a tensor whose height  *)
(* and width are those of the input.                                       *)
(***************************************************************************)
C1_SpatialSizePreserved ==
    (pc = "done" /\ StrideWithinKernel) => (x.H = input.H /\ x.W = input.W)

(***************************************************************************)
(* C2: at every decoder stage n >= 1 the tensor entering the stage has the *)
(* height and width of skip[n] of the reversed skip list, for every input  *)
(* and every configuration with stride <= effective kernel.                *)
(***************************************************************************)
C2_SkipAligned ==
    (pc = "decoder" /\ n >= 1 /\ n < n_blocks /\ StrideWithinKernel) =>
        (x.H = skip[n + 1].H /\ x.W = skip[n + 1].W)

(***************************************************************************)
(* C3: the channel plan makes every concatenation well-formed: at decoder  *)
(* stage n >= 1 the skip tensor (output of encoder stage n_blocks-1-n) has *)
(* as many channels as the output of decoder stage n-1, and their sum is   *)
(* the in_channels of stage n; stage 0's in_channels is channels[-1].      *)
(***************************************************************************)
C3_ChannelPlanWellFormed ==
    Built =>
        /\ Len(model.decoder) = Len(model.encoder)
        /\ model.decoder[1].in_channels = args.channels[Len(args.channels)]
        /\ model.decoder[1].in_channels = model.bottleneck.out_channels
        /\ \A k \in 1..(n_blocks - 1) :
              LET skipC == model.encoder[n_blocks - k].out_channels
                  prevC == model.decoder[k].out_channels
              IN  /\ skipC = prevC
                  /\ skipC + prevC = model.decoder[k + 1].in_channels

C3_Witness ==
    /\ pc = "ready"
    /\ n_blocks >= 2
    /\ args.out_channels.some
    /\ args.channels[1] # args.channels[2]
    /\ args.out_channels.c # args.channels[1]

(***************************************************************************)
(* C4: for every H >= 1 and every stage with stride <= effective kernel,   *)
(* the encoder block's padding followed by the strided convolution yields  *)
(* H_out = ceil(H / S); the same for the width.                            *)
(***************************************************************************)
C4_EncoderOutputIsCeil ==
    (locals.side = "enc" /\ err = "none"
        /\ locals.Sh <= locals.Kh /\ locals.Sw <= locals.Kw) =>
        /\ x.H = Ceil(locals.H, locals.Sh)
        /\ x.W = Ceil(locals.W, locals.Sw)

(***************************************************************************)
(* C5 as claimed: the padded extent H + padding_height is the smallest     *)
(* value >= H that is congruent to Kh modulo Sh and at least Kh (and the   *)
(* same for the width).                                                    *)
(***************************************************************************)
SmallestCongruent(P, H, K, S) ==
    /\ P >= H
    /\ P >= K
    /\ (P - K) % S = 0
    /\ \A q \in H..(P - 1) : ~(q >= K /\ (q - K) % S = 0)

LargestCongruent(P, H, K, S) ==
    /\ P <= H + K - 1
    /\ (P - (2 * H - 1)) % S = 0
    /\ \A q \in (P + 1)..(H + K - 1) : (q - (2 * H - 1)) % S # 0
    /\ S <= K => P >= H
    /\ ((P - K) % S = 0) <=> ((2 * H - 1 - K) % S = 0)

C6_ExportedBundleLoads ==
    /\ package # << >> => DOMAIN package[1] = ConfigKeys \cup {"state_dict"}
    /\ pc # "load_failed"

(***************************************************************************)
(* C6 as amended: get_package returns the eight configuration keys only;   *)
(* once the caller has added state_dict (as __main__ does), load_model on  *)
(* the saved mapping succeeds and returns a model whose eight              *)
(* configuration fields, whose layers and whose parameter values are those *)
(* of the exporting model.                                                 *)
(***************************************************************************)
SameConfiguration(a, b) ==
    /\ a.channels = b.channels
    /\ a.kernel_size = b.kernel_size
    /\ a.stride = b.stride
    /\ a.dilated = b.dilated
    /\ a.separable = b.separable
    /\ a.nonlinear_enc = b.nonlinear_enc
    /\ a.nonlinear_dec = b.nonlinear_dec
    /\ a.out_channels = b.out_channels

C6_RoundTrip ==
    /\ package # << >> =>
          /\ ConfigKeys \subseteq DOMAIN package[1]
          /\ DOMAIN package[1] \subseteq ConfigKeys \cup {"state_dict"}
    /\ (pc \in {"loaded", "load_failed"} /\ "state_dict" \in DOMAIN file[1]) =>
          /\ pc = "loaded"
          /\ SameConfiguration(loaded, model)
          /\ loaded.encoder = model.encoder
          /\ loaded.decoder = model.decoder
          /\ loaded.params = model.params

C6_Witness ==
    /\ pc = "loaded"
    /\ model.separable
    /\ model.out_channels.some
    /\ n_blocks >= 2
    \* the loaded values are not the ones load_model's construction drew
    /\ \A k \in DOMAIN loaded.params :
          loaded.params[k].val # (rng + MaxParam) % (MaxParam + 1)

(***************************************************************************)
(* C7: construction raises whenever some encoder stage's activation kind   *)
(* is not 'relu' or some decoder stage's kind is neither 'relu' nor        *)
(* 'sigmoid'; forward of a constructed model never raises the              *)
(* unsupported-activation error.                                           *)
(***************************************************************************)
C7_UnsupportedActivationFailsFast ==
    /\ (pc # "start" /\ ~(EncoderKindsSupported /\ DecoderKindsSupported)) =>
          (pc = "ctor_failed" /\ model.err # "none")
    /\ InForward => err # "NotImplementedError"

C7_Witness ==
    /\ pc = "ctor_failed"
    /\ err = "NotImplementedError"
    /\ ~args.dilated
    /\ EncoderKindsSupported
    /\ args.nonlinear_dec.isList
    /\ ArgBlocks >= 2
    /\ args.nonlinear_dec.v[1] = "sigmoid"

(***************************************************************************)
(* C8 as claimed: with dilated=true construction fails with the assertion  *)
(* error whenever the resolved stride of some stage is not 1; with         *)
(* dilated=false the assertion never fires.                                *)
(***************************************************************************)
SomeStrideNotOne == \E i \in 1..ArgBlocks : ~UnitStride(i)

C8_DilatedStrideAsserts ==
    /\ (pc # "start" /\ args.dilated /\ SomeStrideNotOne) =>
          (pc = "ctor_failed" /\ err = "AssertionError")
    /\ ~args.dilated => err # "AssertionError"

(***************************************************************************)
(* C8 as amended: with dilated=true and the resolved stride of some stage  *)
(* not 1, construction always fails, so forward is never reached; the      *)
(* error is the assertion error unless an encoder stage built before the   *)
(* first such stage (and before any other stage whose stride is not the    *)
(* int 1) has an unsupported activation kind, whose NotImplementedError is *)
(* raised first.  With dilated=false the assertion never fires.            *)
(***************************************************************************)
\* the first stage (1-indexed) at which Encoder2d.__init__ raises, and what
FirstAssertStage == CHOOSE i \in 1..ArgBlocks :
    /\ ~(StrideAt(i).t = "int" /\ StrideAt(i).h = 1)
    /\ \A j \in 1..(i - 1) : StrideAt(j).t = "int" /\ StrideAt(j).h = 1

C8_DilatedStrideFails ==
    /\ (pc # "start" /\ args.dilated /\ SomeStrideNotOne) =>
          /\ pc = "ctor_failed"
          /\ IF \A j \in 1..(FirstAssertStage - 1) : EntryAt(args.nonlinear_enc, j) = "relu"
             THEN err = "AssertionError"
             ELSE err = "NotImplementedError"
    /\ ~args.dilated => err # "AssertionError"

C8_Witness ==
    /\ pc = "ctor_failed"
    /\ err = "AssertionError"
    /\ args.dilated
    /\ args.stride.isList
    /\ ArgBlocks >= 2
    /\ args.stride.v[1] = PyInt(1)
    /\ args.stride.v[2] # PyInt(1)

(***************************************************************************)
(* C9 as claimed: the __main__ configuration with every other constructor  *)
(* argument at its default maps (4,3,256,256) to (4,32,256,256).           *)
(***************************************************************************)
MainDefaults ==
    /\ IsMain
    /\ args.nonlinear_dec = Scalar("relu")
    /\ ~args.out_channels.some

C9_MainDefaultsShape ==
    (MainDefaults /\ pc = "done") => x = Shape(batch_size, MainOut, MainH, MainH)

(***************************************************************************)
(* C9 as amended: with out_channels=32, as __main__ passes it, forward     *)
(* maps (4,3,256,256) to (4,32,256,256); with out_channels at its default  *)
(* the output is (4,3,256,256).  Either way construction and forward       *)
(* succeed and every encoder and decoder stage keeps 256x256.              *)
(***************************************************************************)
C9_MainShape ==
    IsMain =>
        /\ pc \notin {"ctor_failed", "forward_failed"}
        /\ pc \in {"encoder", "decoder", "done"} =>
              /\ x.H = MainH /\ x.W = MainH /\ x.B = batch_size
              /\ \A i \in 1..Len(skip) : skip[i].H = MainH /\ skip[i].W = MainH
        /\ pc = "done" =>
              x = Shape(batch_size, IF args.out_channels.some THEN MainOut ELSE MainC,
                        MainH, MainH)

C9_Witness ==
    /\ IsMain
    /\ pc = "done"
    /\ args.out_channels = SomeChannels(MainOut)
    /\ x = Shape(batch_size, MainOut, MainH, MainH)
    /\ Len(skip) = 4

(***************************************************************************)
(* C10: with dilated=true a stride that is 1 in both dimensions is         *)
(* accepted in every documented form (1, (1,1), or a per-stage list of     *)
(* such entries); encoder stage n then gets dilation 2^n and decoder stage *)
(* n gets dilation 2^(n_blocks-n-1).                                       *)
(***************************************************************************)
StrideGivenAsOnes ==
    /\ \A i \in 1..Len(args.stride.v) : args.stride.v[i] \in {PyInt(1), PyPair(1, 1)}

C10_UnitStrideAccepted ==
    (pc # "start" /\ args.dilated /\ StrideGivenAsOnes
        /\ EncoderKindsSupported /\ DecoderKindsSupported) =>
        /\ pc # "ctor_failed"
        /\ \A i \in 1..n_blocks :
              /\ model.encoder[i].dilation = <<Pow2(i - 1), Pow2(i - 1)>>
              /\ model.decoder[i].dilation = <<Pow2(n_blocks - i), Pow2(n_blocks - i)>>

=============================================================================
